---- MODULE Spec2Model ----
(***************************************************************************)
(* Knuth-Morris-Pratt search of src/string/search/kmp/c/main.c: the        *)
(* function kmp (table build and scan) and the sanity check test() makes   *)
(* on kmp's result.                                                        *)
(*                                                                         *)
(* A byte of a C string is modelled by its unsigned value 1..255; the      *)
(* terminator is 0.  Whether plain char is signed is a property of the     *)
(* build (charSigned).  A size_t value is represented by its residue in    *)
(* (-2^63, 2^63): (size_t)(char)0xE9 = 2^64 - 23 is written -23, and       *)
(* i - patternlen + 1 is written as the integer it is before it wraps.     *)
(* An access outside the storage of dfa is undefined behaviour: a load     *)
(* yields any value of Garbage, a store leaves the table as it is, and     *)
(* either may trap (pc = "segv").                                          *)
(*                                                                         *)
(* The table is kept for the rows in Rows: row 0 (the terminator), the     *)
(* first and last rows the loops visit, and the row of every byte an input *)
(* can hold.  Every other row c of [0, RADIX) is stored into by the same   *)
(* loop statements as row 1 and is never the row of a pattern or text      *)
(* byte, so it holds what row 1 holds; Rep maps it to row 1.               *)
(***************************************************************************)
EXTENDS Integers, Sequences, FiniteSets, TLC

\* ---- bounds of the model ----
MaxPatLen == 3
MaxTextLen == 4

\* Byte values the inputs are drawn from: 'a' and 0xE9 (negative as a signed char).
Alphabet == {97, 233}
\* Values an uninitialised or out-of-bounds cell may hold.
Garbage == {0, 9}

\* ---- program constants ----
RADIX == 256

VARIABLES
    pattern,     \* argv pattern, a sequence of bytes (without the terminator)
    text,        \* the line read, a sequence of bytes (without the terminator)
    charSigned,  \* TRUE when plain char is signed in this build
    dfa,         \* size_t dfa[RADIX][patternlen]: dfa[c][s]
    state,       \* kmp's local state
    j,           \* build loop index
    i,           \* scan loop index
    result,      \* what kmp returned
    pc,          \* position in the program
    run,         \* 1 or 2: which execution of the program on these inputs
    prev,        \* what kmp returned in the first execution
    written,     \* cells <<c, s>> of dfa (c in Rows) that have been stored into
    stores,      \* number of store instructions into dfa executed
    reads,       \* scan history: <<position read, state after the lookup>>
    badRow,      \* some access used a row index outside [0, RADIX)
    badCol       \* some access used a column index outside [0, patternlen)

vars == <<pattern, text, charSigned, dfa, state, j, i, result, pc, run, prev,
          written, stores, reads, badRow, badCol>>

\* ---- helpers ----
SeqsUpTo(S, n) == UNION {[1..k -> S] : k \in 0..n}

\* strlen(pattern), strlen(text)
patternlen == Len(pattern)
textlen == Len(text)

\* pattern[k], text[k] with C's 0-based indexing; index strlen is the terminator.
PatAt(k) == IF k < patternlen THEN pattern[k + 1] ELSE 0
TextAt(k) == IF k < textlen THEN text[k + 1] ELSE 0

\* The value of a char holding byte b.
CharVal(b) == IF charSigned /\ b >= 128 THEN b - 256 ELSE b

\* (size_t)ch as used for the row index.
Row(b) == CharVal(b)

\* The rows of dfa the model keeps, and the kept row that stands for row c.
Rows == {0, 1, RADIX - 1} \cup Alphabet
Rep(c) == IF c \in Rows THEN c ELSE 1

InRow(r) == r \in 0..(RADIX - 1)
InCol(s) == s \in 0..(patternlen - 1)

\* The values a load of dfa[r][s] may yield.
Load(d, r, s) == IF InRow(r) /\ InCol(s) THEN {d[Rep(r)][s]} ELSE Garbage

\* The table after the store dfa[r][s] = v.
Store(d, r, s, v) ==
    IF InRow(r) /\ InCol(s) THEN [d EXCEPT ![r][s] = v] ELSE d

Cells(r, s) == IF InRow(r) /\ InCol(s) THEN {<<r, s>>} ELSE {}

\* Fresh storage for the variable-length array: every cell holds g.
FreshDfa(g) == [c \in Rows |-> [s \in 0..(patternlen - 1) |-> g]]

Unset == [kind |-> "unset", off |-> 0]
Null == [kind |-> "null", off |-> 0]
Ptr(o) == [kind |-> "ptr", off |-> o]

\* ---- the program ----
Init ==
    /\ pattern \in SeqsUpTo(Alphabet, MaxPatLen)
    /\ text \in SeqsUpTo(Alphabet, MaxTextLen)
    /\ charSigned \in BOOLEAN
    /\ \E g \in Garbage : dfa = [c \in Rows |-> [s \in 0..(Len(pattern) - 1) |-> g]]
    /\ state = 0
    /\ j = 0
    /\ i = 0
    /\ result = Unset
    /\ pc = "kmp"
    /\ run = 1
    /\ prev = Unset
    /\ written = {}
    /\ stores = 0
    /\ reads = << >>
    /\ badRow = FALSE
    /\ badCol = FALSE

Trap ==
    /\ pc' = "segv"
    /\ UNCHANGED <<pattern, text, charSigned, dfa, state, j, i, result, run, prev,
                   written, stores, reads, badRow, badCol>>

\* Lines 45-49: column 0.
InitDfa ==
    /\ pc = "kmp"
    /\ LET r == Row(PatAt(0))
           d1 == [c \in Rows |->
                    IF c >= 1 /\ InCol(0) THEN [dfa[c] EXCEPT ![0] = 0] ELSE dfa[c]]
           oob == ~InCol(0) \/ ~InRow(r)
       IN  \/ /\ dfa' = Store(d1, r, 0, 1)
              /\ written' = written \cup {<<c, 0>> : c \in {x \in Rows : x >= 1 /\ InCol(0)}}
                                    \cup Cells(r, 0)
              /\ stores' = stores + RADIX
              /\ badRow' = (badRow \/ ~InRow(r))
              /\ badCol' = (badCol \/ ~InCol(0))
              /\ j' = 1
              /\ pc' = "build"
              /\ UNCHANGED <<pattern, text, charSigned, state, i, result, run, prev, reads>>
           \/ oob /\ Trap

\* Lines 52-63: one iteration of the build loop.
BuildStep ==
    /\ pc = "build"
    /\ j < patternlen
    /\ LET x == state
           r == Row(PatAt(j))
           oob == ~InCol(x) \/ ~InRow(r)
       IN  \/ \E v \in (IF InCol(x) THEN {0} ELSE Garbage) :
                LET d1 == [c \in Rows |->
                             [dfa[c] EXCEPT ![j] = IF InCol(x) THEN dfa[c][x] ELSE v]]
                    d2 == Store(d1, r, j, j + 1)
                IN  \E s2 \in Load(d2, r, x) :
                      /\ dfa' = d2
                      /\ state' = s2
                      /\ written' = written \cup {<<c, j>> : c \in Rows}
                      /\ stores' = stores + RADIX + 1
                      /\ badRow' = (badRow \/ ~InRow(r))
                      /\ badCol' = (badCol \/ ~InCol(x))
                      /\ j' = j + 1
                      /\ UNCHANGED <<pattern, text, charSigned, i, result, pc, run, prev, reads>>
           \/ oob /\ Trap

\* Lines 65-67: the build loop is over, the scan starts.
RunDfa ==
    /\ pc = "build"
    /\ j >= patternlen
    /\ state' = 0
    /\ i' = 0
    /\ pc' = "scan"
    /\ UNCHANGED <<pattern, text, charSigned, dfa, j, result, run, prev,
                   written, stores, reads, badRow, badCol>>

\* i++ of the scan loop (line 67).
ScanStall(k) == k
ScanAdvance(k) == k + 1

\* The offset of the match that ends at position k (line 72).
MatchOffset(k) == k - patternlen + 1

\* state >= patternlen (line 71).
Accepting(s) == s >= patternlen

\* Lines 67-74: one iteration of the scan loop.
ScanStep ==
    /\ pc = "scan"
    /\ i < textlen
    /\ LET r == Row(TextAt(i))
           oob == ~InRow(r) \/ ~InCol(state)
       IN  \/ \E s2 \in Load(dfa, r, state) :
                /\ state' = s2
                /\ reads' = Append(reads, <<i, s2>>)
                /\ badRow' = (badRow \/ ~InRow(r))
                /\ badCol' = (badCol \/ ~InCol(state))
                /\ IF Accepting(s2)
                     THEN /\ result' = Ptr(MatchOffset(i))
                          /\ pc' = "ret"
                          /\ i' = i
                     ELSE /\ i' = ScanAdvance(i)
                          /\ UNCHANGED <<result, pc>>
                /\ UNCHANGED <<pattern, text, charSigned, dfa, j, run, prev, written, stores>>
           \/ oob /\ Trap

\* Lines 76-77: the text is exhausted.
NotFound ==
    /\ pc = "scan"
    /\ i >= textlen
    /\ result' = Null
    /\ pc' = "ret"
    /\ UNCHANGED <<pattern, text, charSigned, dfa, state, j, i, run, prev,
                   written, stores, reads, badRow, badCol>>

\* Lines 109-112 of test: assert(result[k] == pattern[k]) for k < strlen(pattern).
SanityOutcomes ==
    IF patternlen = 0 THEN {"done"}
    ELSE IF result.kind = "null" THEN {"segv"}
    ELSE LET pos == {result.off + k : k \in 0..(patternlen - 1)}
         IN  IF pos \subseteq 0..textlen
               THEN IF \A k \in 0..(patternlen - 1) : TextAt(result.off + k) = PatAt(k)
                      THEN {"done"} ELSE {"abort"}
               ELSE {"done", "abort", "segv"}

SanityCheck ==
    /\ pc = "ret"
    /\ pc' \in SanityOutcomes
    /\ UNCHANGED <<pattern, text, charSigned, dfa, state, j, i, result, run, prev,
                   written, stores, reads, badRow, badCol>>

\* The program is executed a second time with the same pattern and input line.
Rerun ==
    /\ pc \in {"done", "abort", "segv"}
    /\ run = 1
    /\ result.kind # "unset"
    /\ run' = 2
    /\ prev' = result
    /\ \E g \in Garbage : dfa' = FreshDfa(g)
    /\ state' = 0
    /\ j' = 0
    /\ i' = 0
    /\ result' = Unset
    /\ pc' = "kmp"
    /\ written' = {}
    /\ stores' = 0
    /\ reads' = << >>
    /\ badRow' = FALSE
    /\ badCol' = FALSE
    /\ UNCHANGED <<pattern, text, charSigned>>

Next ==
    \/ InitDfa
    \/ BuildStep
    \/ RunDfa
    \/ ScanStep
    \/ NotFound
    \/ SanityCheck
    \/ Rerun

Spec == Init /\ [][Next]_vars

\* ---- reference definitions the claims are stated with ----

\* The pattern occurs in the text at offset k.
Occurs(k) ==
    /\ k >= 0
    /\ k + patternlen <= textlen
    /\ \A q \in 0..(patternlen - 1) : TextAt(k + q) = PatAt(q)

Matches == {k \in 0..textlen : Occurs(k)}
Leftmost == CHOOSE k \in Matches : \A q \in Matches : k <= q

\* pattern[0..k) is a suffix of text[0..pos].
PrefixIsSuffix(k, pos) ==
    /\ k <= pos + 1
    /\ \A q \in 0..(k - 1) : PatAt(q) = TextAt(pos + 1 - k + q)

\* Length of the longest prefix of the pattern that is a suffix of text[0..pos].
LongestPrefixSuffix(pos) ==
    LET S == {k \in 0..patternlen : PrefixIsSuffix(k, pos)}
    IN  CHOOSE k \in S : \A q \in S : q <= k

\* Length of the longest proper prefix of pattern[0..n) that is also its suffix.
Border(n) ==
    LET S == {k \in 0..(n - 1) :
                \A q \in 0..(k - 1) : PatAt(q) = PatAt(n - k + q)}
    IN  CHOOSE k \in S : \A q \in S : q <= k

\* kmp has returned.
Returned == result.kind # "unset"
\* The build phase is over.
Built == pc \in {"scan", "ret", "done", "abort"}
\* Every byte of the inputs has a non-negative char value in this build.
PlainBytes == \A k \in 0..(patternlen + textlen) :
                 /\ CharVal(PatAt(k)) >= 0
                 /\ CharVal(TextAt(k)) >= 0

\* ---- the claims ----

\* C1: for a non-empty pattern kmp returns a pointer to the smallest offset at
\* which the pattern occurs in the text, and NULL exactly when the pattern
\* does not occur.
KmpLeftmost ==
    (patternlen >= 1 /\ Returned) =>
        result = (IF Matches = {} THEN Null ELSE Ptr(Leftmost))

\* C2: after the build for a pattern of length m >= 1, every cell dfa[c][s],
\* c in [0, 256), s in [0, m), has been assigned and holds a state in [0, m];
\* in column 0, pattern[0] maps to 1 and every other symbol to 0.
TableTotal ==
    (patternlen >= 1 /\ Built) =>
        \A c \in 0..(RADIX - 1) :
            /\ \A s \in 0..(patternlen - 1) :
                  /\ <<Rep(c), s>> \in written
                  /\ dfa[Rep(c)][s] \in 0..patternlen
            /\ dfa[Rep(c)][0] = (IF c = PatAt(0) THEN 1 ELSE 0)

\* C3: with an empty pattern nothing is stored into the table, no scan step is
\* taken and no match is returned.
EmptyPatternRejected ==
    patternlen = 0 =>
        /\ stores = 0
        /\ reads = << >>
        /\ result.kind # "ptr"

\* C4: once kmp has returned, the sanity check of test passes: the run ends
\* without an assertion failure and without an invalid access, for every
\* pattern and every input line.
SanityCheckPasses == Returned => pc \notin {"abort", "segv"}

\* C5: two executions of kmp on the same pattern and text return the same
\* result, whatever the storage of the table held before the build.
Deterministic == (run = 2 /\ Returned) => result = prev

\* C6: for a non-empty pattern, after the scan has consumed text[0..pos] the
\* state is the length of the longest prefix of the pattern that is a suffix
\* of text[0..pos] (so it is m exactly when the pattern occurs ending at pos).
ScanStateIsLongestPrefix ==
    patternlen >= 1 =>
        \A k \in 1..Len(reads) :
            /\ reads[k][2] = LongestPrefixSuffix(reads[k][1])
            /\ (reads[k][2] = patternlen <=> Occurs(reads[k][1] - patternlen + 1))

\* C7: at the start of every build iteration j (1 <= j < m) the restart cursor
\* is below j and is the length of the longest proper prefix of pattern[0..j)
\* that is also its suffix.
RestartCursorIsBorder ==
    (pc = "build" /\ 1 <= j /\ j < patternlen) =>
        /\ state < j
        /\ state = Border(j)

\* C8: every table access of the build and of the scan uses a row index in
\* [0, 256), whatever non-terminator values the bytes take.
RowIndexInRange == ~badRow

\* C9: for a non-empty pattern every table access uses a column index in
\* [0, m), and a match returned at text position i has i >= m - 1 and an
\* offset in [0, n - m].
ColumnIndexInRange ==
    patternlen >= 1 =>
        /\ ~badCol
        /\ (result.kind = "ptr" =>
              /\ i >= patternlen - 1
              /\ result.off \in 0..(textlen - patternlen))

\* C10: the scan is one forward pass that ends: it makes at most n lookups,
\* reads the positions 0, 1, 2, ... in this order, each once, makes no lookup
\* after the state has reached m, returns a match only at such a position and
\* NULL only after position n - 1, and while it runs a step is enabled.
ScanSinglePass ==
    /\ Len(reads) <= textlen
    /\ \A k \in 1..Len(reads) : reads[k][1] = k - 1
    /\ \A k \in 1..(Len(reads) - 1) : reads[k][1] < reads[k + 1][1]
    /\ \A k \in 1..(Len(reads) - 1) : ~Accepting(reads[k][2])
    /\ (result.kind = "ptr" =>
          /\ Len(reads) >= 1
          /\ Accepting(reads[Len(reads)][2])
          /\ i = Len(reads) - 1)
    /\ (result.kind = "null" => Len(reads) = textlen)
    /\ (pc = "scan" =>
          /\ i = Len(reads)
          /\ i <= textlen
          /\ ENABLED (ScanStep \/ NotFound))

\* C10 witness: a scan with every access inside the table that fell back from
\* a partial match, read three positions and stopped at a genuine match before
\* the end of the text.
ScanStoppedEarly ==
    /\ result.kind = "ptr"
    /\ ~badRow /\ ~badCol
    /\ patternlen >= 2
    /\ Len(reads) = 3
    /\ Len(reads) < textlen
    /\ reads[1][2] = 1 /\ reads[2][2] = 1
    /\ Occurs(result.off)

\* ---- what holds of the code when no byte has a negative char value ----

KmpLeftmostPlain == PlainBytes => KmpLeftmost
DeterministicPlain == PlainBytes => Deterministic
ScanStatePlain == PlainBytes => ScanStateIsLongestPrefix
RestartCursorPlain == PlainBytes => RestartCursorIsBorder
RowIndexPlain == PlainBytes => RowIndexInRange
ColumnIndexPlain == PlainBytes => ColumnIndexInRange

====
